---- MODULE Spec2Model ----
(***************************************************************************)
(* Transaction codec and signing core of avalanche.js:                     *)
(*   src/apis/avm/tx.ts, src/apis/avm/ops.ts, src/apis/platform/tx.ts.     *)
(* Buffers are sequences of bytes (0..255); every object is a record of    *)
(* its fields.  Elements whose classes live in files outside src/          *)
(* (outputs.ts, inputs.ts, types.ts, credentials.ts, keychain.ts) are      *)
(* modelled from the specification's wire layout.                          *)
(***************************************************************************)
EXTENDS Integers, Sequences, FiniteSets, TLC

(***************************************************************************)
(* Bounds of the model.                                                    *)
(***************************************************************************)
MaxOuts == 2
MaxIns == 2
MaxOps == 2

MaxOffset == 2

(***************************************************************************)
(* Program constants (AVMConstants).                                       *)
(***************************************************************************)
BASETX == 0
CREATEASSETTX == 1
OPERATIONTX == 2
IMPORTTX == 3
EXPORTTX == 4
SECPOUTPUTID == 7
SECPINPUTID == 5
NFTXFEROUTPUTID == 11
NFTXFEROP == 13
SECPCREDENTIAL == 9
NFTCREDENTIAL == 14
ASSETIDLEN == 32

(***************************************************************************)
(* Primitive codec: Buffer.alloc, writeUIntNNBE / readUIntNNBE, concat.    *)
(***************************************************************************)
alloc(n, v) == [i \in 1..n |-> v]

\* the value of a local computed once: Only({body : x \in {value}})
Only(S) == CHOOSE x \in S : TRUE

writeUInt8(n) == <<n % 256>>

writeUInt16BE(n) == <<(n \div 256) % 256, n % 256>>

writeUInt32BE(n) ==
    <<(n \div 16777216) % 256, (n \div 65536) % 256, (n \div 256) % 256, n % 256>>

\* a u64 field holding a value below 2^32: four zero bytes, then the u32
writeUInt64BE(n) == alloc(4, 0) \o writeUInt32BE(n)

\* bintools.copyFrom(bytes, start, end) with 0-based offsets; as a slice
\* does, it stops at the end of the buffer
copyFrom(bytes, start, end) ==
    SubSeq(bytes, start + 1, IF end > Len(bytes) THEN Len(bytes) ELSE end)

readUInt8(b) == b[1]

readUInt16BE(b) == b[1] * 256 + b[2]

readUInt32BE(b) == b[1] * 16777216 + b[2] * 65536 + b[3] * 256 + b[4]

RECURSIVE concat(_)
concat(barr) ==
    IF barr = <<>> THEN <<>> ELSE Head(barr) \o concat(Tail(barr))

\* Buffer.compare: lexicographic order of two byte strings, -1 | 0 | 1
compare(a, b) ==
    LET n == IF Len(a) < Len(b) THEN Len(a) ELSE Len(b)
    IN  IF \E i \in 1..n : a[i] # b[i]
        THEN LET d == CHOOSE i \in 1..n : a[i] # b[i] /\ \A j \in 1..(i - 1) : a[j] = b[j]
             IN  IF a[d] < b[d] THEN -1 ELSE 1
        ELSE IF Len(a) < Len(b) THEN -1
        ELSE IF Len(a) > Len(b) THEN 1
        ELSE 0

(***************************************************************************)
(* Abstract capabilities: SHA-256 (create-hash), the keychain and the      *)
(* signer.  The hash is a deterministic 32-byte digest of the bytes; the   *)
(* signer returns 65 bytes that name the key and carry the digest.         *)
(***************************************************************************)
RECURSIVE digestByte(_, _, _)
digestByte(bytes, i, acc) ==
    IF i > Len(bytes) THEN acc % 256
    ELSE digestByte(bytes, i + 32, (acc * 31 + bytes[i] + 7) % 65536)

sha256(bytes) == [i \in 1..32 |-> digestByte(bytes, i, Len(bytes) + i)]

\* AVMKeyChain.getKey(address): kc is the set of addresses that have a key
hasKey(kc, source) == source \in kc

\* AVMKeyPair.sign(msg): the 65-byte recoverable signature of key `source`
keypair_sign(source, msg) == <<source>> \o msg \o alloc(32, 0)

\* Signature.fromBuffer(signval): a Signature holds the 65 bytes
Signature(signval) == [bytes |-> signval]

(***************************************************************************)
(* Element codec (outputs.ts, inputs.ts, types.ts, credentials.ts).        *)
(***************************************************************************)
\* SigIdx: the serialized u32 address index and the local source address
\* (0 is the all-zero address of a SigIdx no source was set on)
SigIdx(addressIdx, source) == [bytes |-> writeUInt32BE(addressIdx), source |-> source]

RECURSIVE SigIdxs_toBuffer(_)
SigIdxs_toBuffer(sigIdxs) ==
    IF sigIdxs = <<>> THEN <<>>
    ELSE Head(sigIdxs).bytes \o SigIdxs_toBuffer(Tail(sigIdxs))

RECURSIVE SigIdxs_fromBuffer(_, _, _)
SigIdxs_fromBuffer(bytes, offset, n) ==
    IF n = 0 THEN <<>>
    ELSE <<[bytes |-> copyFrom(bytes, offset, offset + 4), source |-> 0]>>
         \o SigIdxs_fromBuffer(bytes, offset + 4, n - 1)

\* TransferableOutput: asset id, output type id, amount
TransferableOutput(assetid, amount) ==
    [assetid |-> alloc(ASSETIDLEN, assetid), outputid |-> SECPOUTPUTID,
     amount |-> writeUInt64BE(amount)]

TransferableOutput_toBuffer(o) ==
    o.assetid \o writeUInt32BE(o.outputid) \o o.amount

TransferableOutput_fromBuffer(bytes, offset) ==
    LET outputid == readUInt32BE(copyFrom(bytes, offset + 32, offset + 36))
    IN  [ok |-> outputid = SECPOUTPUTID,
         obj |-> [assetid |-> copyFrom(bytes, offset, offset + 32),
                  outputid |-> outputid,
                  amount |-> copyFrom(bytes, offset + 36, offset + 44)],
         offset |-> offset + 44]

\* canonical bytes: u32 type id, then the encoding
TransferableOutput_canonical(o) ==
    writeUInt32BE(o.outputid) \o TransferableOutput_toBuffer(o)

TransferableOutput_comparator(a, b) ==
    compare(TransferableOutput_canonical(a), TransferableOutput_canonical(b))

\* TransferableInput: UTXO id (txid, output index), asset id, input type id,
\* amount, signer indices
TransferableInput(txid, assetid, amount, sigIdxs) ==
    [txid |-> alloc(32, txid), outputidx |-> writeUInt32BE(0),
     assetid |-> alloc(ASSETIDLEN, assetid), inputid |-> SECPINPUTID,
     amount |-> writeUInt64BE(amount), sigIdxs |-> sigIdxs]

TransferableInput_toBuffer(in) ==
    in.txid \o in.outputidx \o in.assetid \o writeUInt32BE(in.inputid)
    \o in.amount \o writeUInt32BE(Len(in.sigIdxs)) \o SigIdxs_toBuffer(in.sigIdxs)

TransferableInput_fromBuffer(bytes, offset) ==
    LET inputid == readUInt32BE(copyFrom(bytes, offset + 68, offset + 72))
        sigCount == readUInt32BE(copyFrom(bytes, offset + 80, offset + 84))
    IN  [ok |-> inputid = SECPINPUTID,
         obj |-> [txid |-> copyFrom(bytes, offset, offset + 32),
                  outputidx |-> copyFrom(bytes, offset + 32, offset + 36),
                  assetid |-> copyFrom(bytes, offset + 36, offset + 68),
                  inputid |-> inputid,
                  amount |-> copyFrom(bytes, offset + 72, offset + 80),
                  sigIdxs |-> SigIdxs_fromBuffer(bytes, offset + 84, sigCount)],
         offset |-> offset + 84 + 4 * sigCount]

TransferableInput_canonical(in) ==
    writeUInt32BE(in.inputid) \o TransferableInput_toBuffer(in)

TransferableInput_comparator(a, b) ==
    compare(TransferableInput_canonical(a), TransferableInput_canonical(b))

\* Input.getCredentialID()
Input_getCredentialID(in) == SECPCREDENTIAL

\* UTXOID: 32-byte txid and u32 output index
UTXOID(txid, outputidx) == [txid |-> alloc(32, txid), outputidx |-> writeUInt32BE(outputidx)]

UTXOID_toBuffer(u) == u.txid \o u.outputidx

\* NFTTransferOutput: the group id
NFTTransferOutput(groupid) == [groupid |-> writeUInt32BE(groupid)]

NFTTransferOutput_toBuffer(o) == o.groupid

\* InitialStates: a counted list of feature-extension ids
InitialStates_toBuffer(st) ==
    writeUInt32BE(Len(st)) \o concat([i \in 1..Len(st) |-> writeUInt32BE(st[i])])

InitialStates_fromBuffer(bytes, offset) ==
    LET n == readUInt32BE(copyFrom(bytes, offset, offset + 4))
    IN  [obj |-> [i \in 1..n |->
                    readUInt32BE(copyFrom(bytes, offset + 4 * i, offset + 4 * i + 4))],
         offset |-> offset + 4 + 4 * n]

\* Credential: type id and signatures; SelectCredentialClass knows two ids
Credential(credid) == [credid |-> credid, sigArray |-> <<>>]

addSignature(cred, sig) == [cred EXCEPT !.sigArray = Append(@, sig)]

SelectCredentialClass_known(credid) == credid \in {SECPCREDENTIAL, NFTCREDENTIAL}

Credential_toBuffer(cred) ==
    writeUInt32BE(Len(cred.sigArray))
    \o concat([i \in 1..Len(cred.sigArray) |-> cred.sigArray[i].bytes])

(***************************************************************************)
(* Operations (ops.ts).                                                    *)
(***************************************************************************)
\* new NFTTransferOperation(output): no signer index yet
NFTTransferOperation(output) == [opid |-> NFTXFEROP, sigIdxs |-> <<>>, output |-> output]

\* Operation.addSignatureIdx(addressIdx, address)
addSignatureIdx(op, addressIdx, address) ==
    [op EXCEPT !.sigIdxs = Append(@, SigIdx(addressIdx, address))]

\* Operation.getSigIdxs()
getSigIdxs(op) == op.sigIdxs

\* Operation.getCredentialID()
Operation_getCredentialID(op) == NFTCREDENTIAL

\* Operation.toBuffer(): the u32 count of signer indices, then each of them
Operation_toBuffer(op) ==
    writeUInt32BE(Len(op.sigIdxs)) \o SigIdxs_toBuffer(op.sigIdxs)

\* a fromBuffer that returns the number of bytes it read, not the position
\* it reached
Operation_fromBufferLength(bytes, offset) ==
    LET sigCount == readUInt32BE(copyFrom(bytes, offset, offset + 4))
    IN  [sigIdxs |-> SigIdxs_fromBuffer(bytes, offset + 4, sigCount),
         offset |-> 4 + 4 * sigCount]

\* Operation.fromBuffer(bytes, offset)
Operation_fromBuffer(bytes, offset) ==
    LET sigCount == readUInt32BE(copyFrom(bytes, offset, offset + 4))
    IN  [sigIdxs |-> SigIdxs_fromBuffer(bytes, offset + 4, sigCount),
         offset |-> offset + 4 + 4 * sigCount]

\* NFTTransferOperation.toBuffer()
NFTTransferOperation_toBuffer(op) ==
    Operation_toBuffer(op) \o NFTTransferOutput_toBuffer(op.output)

\* NFTTransferOperation.fromBuffer(bytes, offset)
NFTTransferOperation_fromBuffer(bytes, offset) ==
    LET sup == Operation_fromBuffer(bytes, offset)
    IN  [obj |-> [opid |-> NFTXFEROP, sigIdxs |-> sup.sigIdxs,
                  output |-> [groupid |-> copyFrom(bytes, sup.offset, sup.offset + 4)]],
         offset |-> sup.offset + 4]

\* SelectOperationClass(opid): throws unless the id is NFTXFEROP
SelectOperationClass_known(opid) == opid = NFTXFEROP

\* new TransferableOperation(assetid, utxoids, operation): the UTXO ids are
\* cloned one by one in the order given
TransferableOperation(assetid, utxoids, operation) ==
    [assetid |-> alloc(ASSETIDLEN, assetid), utxoIDs |-> utxoids, operation |-> operation]

\* a toBuffer() that writes the UTXO ids last to first
TransferableOperation_toBufferReversed(top) ==
    top.assetid \o writeUInt32BE(Len(top.utxoIDs))
    \o concat([i \in 1..Len(top.utxoIDs) |->
                 UTXOID_toBuffer(top.utxoIDs[Len(top.utxoIDs) + 1 - i])])
    \o writeUInt32BE(top.operation.opid)
    \o NFTTransferOperation_toBuffer(top.operation)

\* TransferableOperation.toBuffer()
TransferableOperation_toBuffer(top) ==
    top.assetid \o writeUInt32BE(Len(top.utxoIDs))
    \o concat([i \in 1..Len(top.utxoIDs) |-> UTXOID_toBuffer(top.utxoIDs[i])])
    \o writeUInt32BE(top.operation.opid)
    \o NFTTransferOperation_toBuffer(top.operation)

\* TransferableOperation.fromBuffer(bytes, offset)
TransferableOperation_fromBuffer(bytes, offset) ==
    LET numutxoIDs == readUInt32BE(copyFrom(bytes, offset + 32, offset + 36))
        utxoIDs == [i \in 1..numutxoIDs |->
                      [txid |-> copyFrom(bytes, offset + 36 * i, offset + 36 * i + 32),
                       outputidx |-> copyFrom(bytes, offset + 36 * i + 32, offset + 36 * i + 36)]]
        o2 == offset + 36 + 36 * numutxoIDs
        opid == readUInt32BE(copyFrom(bytes, o2, o2 + 4))
        op == NFTTransferOperation_fromBuffer(bytes, o2 + 4)
    IN  IF SelectOperationClass_known(opid)
        THEN [ok |-> TRUE,
              obj |-> [assetid |-> copyFrom(bytes, offset, offset + 32),
                       utxoIDs |-> utxoIDs, operation |-> op.obj],
              offset |-> op.offset]
        ELSE [ok |-> FALSE,
              obj |-> [assetid |-> copyFrom(bytes, offset, offset + 32),
                       utxoIDs |-> utxoIDs,
                       operation |-> NFTTransferOperation(NFTTransferOutput(0))],
              offset |-> o2 + 4]

(***************************************************************************)
(* Strings: a string is the sequence of its UTF-16 code units (code points *)
(* below 0x800 here), so Len is JavaScript's string length.                *)
(***************************************************************************)
utf8Bytes(c) == IF c < 128 THEN <<c>> ELSE <<192 + (c \div 64), 128 + (c % 64)>>

\* Buffer.alloc(size) then write(str, 0, size, "utf8"): whole characters are
\* written while they fit, the rest of the buffer stays zero
RECURSIVE utf8Write(_, _)
utf8Write(str, size) ==
    IF str = <<>> \/ Len(utf8Bytes(Head(str))) > size THEN alloc(size, 0)
    ELSE utf8Bytes(Head(str)) \o utf8Write(Tail(str), size - Len(utf8Bytes(Head(str))))

\* Buffer.toString("utf8"): an invalid byte decodes to U+FFFD
RECURSIVE utf8Slice(_)
utf8Slice(bytes) ==
    IF bytes = <<>> THEN <<>>
    ELSE IF bytes[1] < 128 THEN <<bytes[1]>> \o utf8Slice(Tail(bytes))
    ELSE IF /\ bytes[1] >= 192 /\ bytes[1] < 224 /\ Len(bytes) >= 2
            /\ bytes[2] >= 128 /\ bytes[2] < 192
            /\ (bytes[1] - 192) * 64 + (bytes[2] - 128) > 127
         THEN <<(bytes[1] - 192) * 64 + (bytes[2] - 128)>> \o utf8Slice(Tail(Tail(bytes)))
    ELSE <<65533>> \o utf8Slice(Tail(bytes))

(***************************************************************************)
(* Array.prototype.sort with the element comparators, as BaseTx calls it.  *)
(***************************************************************************)
RECURSIVE insertOut(_, _)
insertOut(sorted, x) ==
    IF sorted = <<>> THEN <<x>>
    ELSE IF TransferableOutput_comparator(x, Head(sorted)) < 0 THEN <<x>> \o sorted
    ELSE <<Head(sorted)>> \o insertOut(Tail(sorted), x)

\* fault variant: a sort that leaves the list as it stands
sortOutsUnsorted(outs) == outs

\* outs.sort(TransferableOutput.comparator())
RECURSIVE sortOuts(_)
sortOuts(outs) ==
    IF outs = <<>> THEN <<>>
    ELSE insertOut(sortOuts(SubSeq(outs, 1, Len(outs) - 1)), outs[Len(outs)])

RECURSIVE insertIn(_, _)
insertIn(sorted, x) ==
    IF sorted = <<>> THEN <<x>>
    ELSE IF TransferableInput_comparator(x, Head(sorted)) < 0 THEN <<x>> \o sorted
    ELSE <<Head(sorted)>> \o insertIn(Tail(sorted), x)

\* fault variant: a sort that leaves the list as it stands
sortInsUnsorted(ins) == ins

\* ins.sort(TransferableInput.comparator())
RECURSIVE sortIns(_)
sortIns(ins) ==
    IF ins = <<>> THEN <<>>
    ELSE insertIn(sortIns(SubSeq(ins, 1, Len(ins) - 1)), ins[Len(ins)])

(***************************************************************************)
(* Transactions (avm/tx.ts).  One record type holds the fields of BaseTx   *)
(* and of its four subclasses; outsDef / insDef tell whether this.outs /   *)
(* this.ins hold an array or are still undefined.                          *)
(***************************************************************************)
\* the field initialisers of BaseTx and its subclasses, and the constructor's
\* assignments of networkid and blockchainid (lines 191-192)
BaseTx_fields(kind, networkid, blockchainid) ==
    [kind |-> kind,
     networkid |-> writeUInt32BE(networkid),
     blockchainid |-> blockchainid,
     outsDef |-> FALSE, outs |-> <<>>,
     insDef |-> FALSE, ins |-> <<>>,
     name |-> <<>>, symbol |-> <<>>, denomination |-> alloc(1, 0),
     initialstate |-> <<>>,
     ops |-> <<>>, importIns |-> <<>>, exportOuts |-> <<>>]

\* the transaction of an UnsignedTx that was given none (undefined)
NoTransaction == BaseTx_fields(-1, 0, <<>>)

\* BaseTx.constructor: a gives networkid, blockchainid, and outs / ins with
\* outsGiven / insGiven telling whether the argument was passed
BaseTx_constructor(kind, a) ==
    LET tx == BaseTx_fields(kind, a.networkid, a.blockchainid)
    IN  IF a.insGiven /\ a.outsGiven
        THEN [tx EXCEPT !.outsDef = TRUE, !.outs = sortOuts(a.outs),
                        !.insDef = TRUE, !.ins = sortIns(a.ins)]
        ELSE tx

\* CreateAssetTx.constructor: a silent no-op on the extra fields unless every
\* one of them passes the test (extraGiven: name, symbol, denomination and
\* initialstate were passed, with their types)
CreateAssetTx_constructor(a) ==
    LET tx == BaseTx_constructor(CREATEASSETTX, a)
    IN  IF a.extraGiven /\ a.denomination >= 0 /\ a.denomination <= 32
        THEN [tx EXCEPT !.initialstate = a.initialstate, !.name = a.name,
                        !.symbol = a.symbol,
                        !.denomination = writeUInt8(a.denomination)]
        ELSE tx

\* OperationTx.constructor
OperationTx_constructor(a) ==
    [BaseTx_constructor(OPERATIONTX, a) EXCEPT !.ops = a.ops]

\* ImportTx.constructor
ImportTx_constructor(a) ==
    [BaseTx_constructor(IMPORTTX, a) EXCEPT !.importIns = a.importIns]

\* ExportTx.constructor
ExportTx_constructor(a) ==
    [BaseTx_constructor(EXPORTTX, a) EXCEPT !.exportOuts = a.exportOuts]

\* new <class of kind>(...a): the constructor of each class
Transaction_constructor(kind, a) ==
    CASE kind = CREATEASSETTX -> CreateAssetTx_constructor(a)
      [] kind = OPERATIONTX -> OperationTx_constructor(a)
      [] kind = IMPORTTX -> ImportTx_constructor(a)
      [] kind = EXPORTTX -> ExportTx_constructor(a)
      [] OTHER -> BaseTx_constructor(BASETX, a)

\* getTxType() of each class
getTxType(tx) == tx.kind

\* BaseTx.toBuffer(), lines 130-147: the header written from the lists as
\* they stand, each count taken from its list's length
BaseTx_write(tx) ==
    tx.networkid \o tx.blockchainid
    \o writeUInt32BE(Len(tx.outs))
    \o concat([i \in 1..Len(tx.outs) |-> TransferableOutput_toBuffer(tx.outs[i])])
    \o writeUInt32BE(Len(tx.ins))
    \o concat([i \in 1..Len(tx.ins) |-> TransferableInput_toBuffer(tx.ins[i])])

\* BaseTx.toBuffer(): sorts this.outs and this.ins in place, then writes the
\* header.  this.outs.sort / this.ins.sort throw on an undefined list.
BaseTx_toBuffer(tx) ==
    IF ~tx.outsDef THEN [ok |-> FALSE, tx |-> tx, bytes |-> <<>>]
    ELSE IF ~tx.insDef
    THEN [ok |-> FALSE, tx |-> [tx EXCEPT !.outs = sortOuts(@)], bytes |-> <<>>]
    ELSE LET sorted == [tx EXCEPT !.outs = sortOuts(@), !.ins = sortIns(@)]
         IN  [ok |-> TRUE, tx |-> sorted, bytes |-> BaseTx_write(sorted)]

\* CreateAssetTx.toBuffer()
CreateAssetTx_toBuffer(tx) ==
    LET sup == BaseTx_toBuffer(tx)
    IN  [sup EXCEPT !.bytes =
            IF ~sup.ok THEN <<>>
            ELSE @ \o writeUInt16BE(Len(tx.name)) \o utf8Write(tx.name, Len(tx.name))
                   \o writeUInt16BE(Len(tx.symbol)) \o utf8Write(tx.symbol, Len(tx.symbol))
                   \o tx.denomination \o InitialStates_toBuffer(tx.initialstate)]

\* OperationTx.toBuffer()
OperationTx_toBuffer(tx) ==
    LET sup == BaseTx_toBuffer(tx)
    IN  [sup EXCEPT !.bytes =
            IF ~sup.ok THEN <<>>
            ELSE @ \o writeUInt32BE(Len(tx.ops))
                   \o concat([i \in 1..Len(tx.ops) |-> TransferableOperation_toBuffer(tx.ops[i])])]

\* ImportTx.toBuffer()
ImportTx_toBuffer(tx) ==
    LET sup == BaseTx_toBuffer(tx)
    IN  [sup EXCEPT !.bytes =
            IF ~sup.ok THEN <<>>
            ELSE @ \o writeUInt32BE(Len(tx.importIns))
                   \o concat([i \in 1..Len(tx.importIns) |->
                                TransferableInput_toBuffer(tx.importIns[i])])]

\* ExportTx.toBuffer()
ExportTx_toBuffer(tx) ==
    LET sup == BaseTx_toBuffer(tx)
    IN  [sup EXCEPT !.bytes =
            IF ~sup.ok THEN <<>>
            ELSE @ \o writeUInt32BE(Len(tx.exportOuts))
                   \o concat([i \in 1..Len(tx.exportOuts) |->
                                TransferableOutput_toBuffer(tx.exportOuts[i])])]

\* this.transaction.toBuffer(): virtual dispatch on the object's class
Transaction_toBuffer(tx) ==
    CASE tx.kind = CREATEASSETTX -> CreateAssetTx_toBuffer(tx)
      [] tx.kind = OPERATIONTX -> OperationTx_toBuffer(tx)
      [] tx.kind = IMPORTTX -> ImportTx_toBuffer(tx)
      [] tx.kind = EXPORTTX -> ExportTx_toBuffer(tx)
      [] OTHER -> BaseTx_toBuffer(tx)

\* UnsignedTx.toBuffer(): the u32 type tag, then the transaction's bytes
UnsignedTx_toBuffer(tx) ==
    LET base == Transaction_toBuffer(tx)
    IN  [base EXCEPT !.bytes =
            IF ~base.ok THEN <<>> ELSE writeUInt32BE(getTxType(tx)) \o @]

(***************************************************************************)
(* Decoders (avm/tx.ts).  A decoder returns ok (FALSE: it threw), the      *)
(* object as it then stands and the offset reached.                        *)
(***************************************************************************)
RECURSIVE readOuts(_, _, _)
readOuts(bytes, offset, n) ==
    IF n = 0 THEN [ok |-> TRUE, list |-> <<>>, offset |-> offset]
    ELSE Only({IF ~x.ok THEN [ok |-> FALSE, list |-> <<>>, offset |-> x.offset]
               ELSE [readOuts(bytes, x.offset, n - 1) EXCEPT !.list = <<x.obj>> \o @] :
               x \in {TransferableOutput_fromBuffer(bytes, offset)}})

RECURSIVE readIns(_, _, _)
readIns(bytes, offset, n) ==
    IF n = 0 THEN [ok |-> TRUE, list |-> <<>>, offset |-> offset]
    ELSE Only({IF ~x.ok THEN [ok |-> FALSE, list |-> <<>>, offset |-> x.offset]
               ELSE [readIns(bytes, x.offset, n - 1) EXCEPT !.list = <<x.obj>> \o @] :
               x \in {TransferableInput_fromBuffer(bytes, offset)}})

RECURSIVE readOps(_, _, _)
readOps(bytes, offset, n) ==
    IF n = 0 THEN [ok |-> TRUE, list |-> <<>>, offset |-> offset]
    ELSE Only({IF ~x.ok THEN [ok |-> FALSE, list |-> <<>>, offset |-> x.offset]
               ELSE [readOps(bytes, x.offset, n - 1) EXCEPT !.list = <<x.obj>> \o @] :
               x \in {TransferableOperation_fromBuffer(bytes, offset)}})

\* BaseTx.fromBuffer(bytes, offset): the lists are taken in the order found
BaseTx_fromBuffer(tx, bytes, offset) ==
    LET outcount == readUInt32BE(copyFrom(bytes, offset + 36, offset + 40))
    IN  Only({
          LET incount == readUInt32BE(copyFrom(bytes, outs.offset, outs.offset + 4))
              hdr == [tx EXCEPT !.networkid = copyFrom(bytes, offset, offset + 4),
                                !.blockchainid = copyFrom(bytes, offset + 4, offset + 36),
                                !.outsDef = TRUE, !.outs = outs.list]
          IN  IF ~outs.ok THEN [ok |-> FALSE, tx |-> hdr, offset |-> outs.offset]
              ELSE Only({[ok |-> ins.ok,
                          tx |-> [hdr EXCEPT !.insDef = TRUE, !.ins = ins.list],
                          offset |-> ins.offset] :
                         ins \in {readIns(bytes, outs.offset + 4, incount)}}) :
          outs \in {readOuts(bytes, offset + 40, outcount)}})

\* CreateAssetTx.fromBuffer(bytes, offset)
CreateAssetTx_fromBuffer(tx, bytes, offset) ==
    Only({
      LET namesize == readUInt16BE(copyFrom(bytes, sup.offset, sup.offset + 2))
          o1 == sup.offset + 2 + namesize
          symsize == readUInt16BE(copyFrom(bytes, o1, o1 + 2))
          o2 == o1 + 2 + symsize
          inits == InitialStates_fromBuffer(bytes, o2 + 1)
      IN  IF ~sup.ok THEN sup
          ELSE [ok |-> TRUE,
                tx |-> [sup.tx EXCEPT
                          !.name = utf8Slice(copyFrom(bytes, sup.offset + 2, o1)),
                          !.symbol = utf8Slice(copyFrom(bytes, o1 + 2, o2)),
                          !.denomination = copyFrom(bytes, o2, o2 + 1),
                          !.initialstate = inits.obj],
                offset |-> inits.offset] :
      sup \in {BaseTx_fromBuffer(tx, bytes, offset)}})

\* OperationTx.fromBuffer(bytes, offset): each operation read is pushed onto
\* this.ops
OperationTx_fromBuffer(tx, bytes, offset) ==
    Only({
      LET numOps == readUInt32BE(copyFrom(bytes, sup.offset, sup.offset + 4))
          ops == readOps(bytes, sup.offset + 4, numOps)
      IN  IF ~sup.ok THEN sup
          ELSE [ok |-> ops.ok,
                tx |-> [sup.tx EXCEPT !.ops = @ \o ops.list],
                offset |-> ops.offset] :
      sup \in {BaseTx_fromBuffer(tx, bytes, offset)}})

\* ImportTx.fromBuffer(bytes, offset): each input read is pushed onto
\* this.importIns
ImportTx_fromBuffer(tx, bytes, offset) ==
    Only({
      LET numImportOuts == readUInt32BE(copyFrom(bytes, sup.offset, sup.offset + 4))
          importIns == readIns(bytes, sup.offset + 4, numImportOuts)
      IN  IF ~sup.ok THEN sup
          ELSE [ok |-> importIns.ok,
                tx |-> [sup.tx EXCEPT !.importIns = @ \o importIns.list],
                offset |-> importIns.offset] :
      sup \in {BaseTx_fromBuffer(tx, bytes, offset)}})

\* ExportTx.fromBuffer(bytes, offset): each output read is pushed onto
\* this.exportOuts
ExportTx_fromBuffer(tx, bytes, offset) ==
    Only({
      LET numExportOuts == readUInt32BE(copyFrom(bytes, sup.offset, sup.offset + 4))
          exportOuts == readOuts(bytes, sup.offset + 4, numExportOuts)
      IN  IF ~sup.ok THEN sup
          ELSE [ok |-> exportOuts.ok,
                tx |-> [sup.tx EXCEPT !.exportOuts = @ \o exportOuts.list],
                offset |-> exportOuts.offset] :
      sup \in {BaseTx_fromBuffer(tx, bytes, offset)}})

\* this.transaction.fromBuffer(bytes, offset): virtual dispatch
Transaction_fromBuffer(tx, bytes, offset) ==
    CASE tx.kind = CREATEASSETTX -> CreateAssetTx_fromBuffer(tx, bytes, offset)
      [] tx.kind = OPERATIONTX -> OperationTx_fromBuffer(tx, bytes, offset)
      [] tx.kind = IMPORTTX -> ImportTx_fromBuffer(tx, bytes, offset)
      [] tx.kind = EXPORTTX -> ExportTx_fromBuffer(tx, bytes, offset)
      [] OTHER -> BaseTx_fromBuffer(tx, bytes, offset)

\* the arguments of a constructor call that passes nothing
NoArgs ==
    [networkid |-> 3, blockchainid |-> alloc(32, 16),
     outsGiven |-> FALSE, outs |-> <<>>, insGiven |-> FALSE, ins |-> <<>>,
     extraGiven |-> FALSE, name |-> <<>>, symbol |-> <<>>, denomination |-> 0,
     initialstate |-> <<>>, ops |-> <<>>, importIns |-> <<>>, exportOuts |-> <<>>]

\* fault variant: every tag is taken for a known one
SelectTxClass_knownAny(txtype) == TRUE

\* SelectTxClass(txtype): the tags it knows
SelectTxClass_known(txtype) == txtype \in {BASETX, CREATEASSETTX, OPERATIONTX}

\* SelectTxClass(txtype) called with no further arguments
SelectTxClass(txtype) ==
    CASE txtype = CREATEASSETTX -> CreateAssetTx_constructor(NoArgs)
      [] txtype = OPERATIONTX -> OperationTx_constructor(NoArgs)
      [] OTHER -> BaseTx_constructor(BASETX, NoArgs)

\* UnsignedTx.fromBuffer(bytes, offset): this.transaction becomes a fresh
\* object of the class the tag selects, which then decodes the body; an
\* unknown tag throws before this.transaction is assigned
UnsignedTx_fromBuffer(tx, bytes, offset) ==
    LET txtype == readUInt32BE(copyFrom(bytes, offset, offset + 4))
    IN  IF ~SelectTxClass_known(txtype)
        THEN [ok |-> FALSE, tx |-> tx, offset |-> offset + 4]
        ELSE Transaction_fromBuffer(SelectTxClass(txtype), bytes, offset + 4)

(***************************************************************************)
(* Signing (avm/tx.ts).  A sign returns ok (FALSE: it threw) and the       *)
(* credentials it built.                                                   *)
(***************************************************************************)
\* fault variant: one signature per element, whatever its signer indices
signElementOnce(credid, sigidxs, msg, kc) ==
    [ok |-> /\ SelectCredentialClass_known(credid)
            /\ \A j \in 1..Len(sigidxs) : hasKey(kc, sigidxs[j].source),
     cred |-> [credid |-> credid,
               sigArray |-> [j \in 1..(IF sigidxs = <<>> THEN 0 ELSE 1) |->
                               Signature(keypair_sign(sigidxs[j].source, msg))]]]

\* fault variant: a signer index whose key is missing is skipped
signElementSkipMissing(credid, sigidxs, msg, kc) ==
    [ok |-> SelectCredentialClass_known(credid),
     cred |-> [credid |-> credid,
               sigArray |-> [j \in 1..Cardinality({k \in 1..Len(sigidxs) :
                                                     hasKey(kc, sigidxs[k].source)}) |->
                               Signature(keypair_sign(sigidxs[j].source, msg))]]]

\* the inner loop of every sign: one signature per signer index, made with
\* the key the keychain holds for its source; keypair.sign throws on the
\* undefined that getKey returns for an address it has no key for
signElement(credid, sigidxs, msg, kc) ==
    [ok |-> /\ SelectCredentialClass_known(credid)
            /\ \A j \in 1..Len(sigidxs) : hasKey(kc, sigidxs[j].source),
     cred |-> [credid |-> credid,
               sigArray |-> [j \in 1..Len(sigidxs) |->
                               Signature(keypair_sign(sigidxs[j].source, msg))]]]

\* BaseTx.sign(msg, kc): one credential per input, in the order of this.ins
BaseTx_sign(tx, msg, kc) ==
    LET c == [i \in 1..Len(tx.ins) |->
                signElement(Input_getCredentialID(tx.ins[i]), tx.ins[i].sigIdxs, msg, kc)]
    IN  [ok |-> \A i \in 1..Len(tx.ins) : c[i].ok,
         sigs |-> [i \in 1..Len(tx.ins) |-> c[i].cred]]

\* fault variant: the operations' credentials come before the inputs'
OperationTx_signOpsFirst(tx, msg, kc) ==
    LET sup == BaseTx_sign(tx, msg, kc)
        c == [i \in 1..Len(tx.ops) |->
                signElement(Operation_getCredentialID(tx.ops[i].operation),
                            getSigIdxs(tx.ops[i].operation), msg, kc)]
    IN  [ok |-> sup.ok /\ \A i \in 1..Len(tx.ops) : c[i].ok,
         sigs |-> [i \in 1..Len(tx.ops) |-> c[i].cred] \o sup.sigs]

\* OperationTx.sign(msg, kc): super.sign, then one credential per operation
OperationTx_sign(tx, msg, kc) ==
    LET sup == BaseTx_sign(tx, msg, kc)
        c == [i \in 1..Len(tx.ops) |->
                signElement(Operation_getCredentialID(tx.ops[i].operation),
                            getSigIdxs(tx.ops[i].operation), msg, kc)]
    IN  [ok |-> sup.ok /\ \A i \in 1..Len(tx.ops) : c[i].ok,
         sigs |-> sup.sigs \o [i \in 1..Len(tx.ops) |-> c[i].cred]]

\* ImportTx.sign(msg, kc): super.sign, then one credential per import input
ImportTx_sign(tx, msg, kc) ==
    LET sup == BaseTx_sign(tx, msg, kc)
        c == [i \in 1..Len(tx.importIns) |->
                signElement(Input_getCredentialID(tx.importIns[i]),
                            tx.importIns[i].sigIdxs, msg, kc)]
    IN  [ok |-> sup.ok /\ \A i \in 1..Len(tx.importIns) : c[i].ok,
         sigs |-> sup.sigs \o [i \in 1..Len(tx.importIns) |-> c[i].cred]]

\* this.transaction.sign(msg, kc): virtual dispatch; CreateAssetTx and
\* ExportTx inherit BaseTx.sign
Transaction_sign(tx, msg, kc) ==
    CASE tx.kind = OPERATIONTX -> OperationTx_sign(tx, msg, kc)
      [] tx.kind = IMPORTTX -> ImportTx_sign(tx, msg, kc)
      [] OTHER -> BaseTx_sign(tx, msg, kc)

\* fault variant: the digest is taken over the body without its type tag
UnsignedTx_signBody(tx, kc) ==
    Only({
      IF ~txbuff.ok
      THEN [ok |-> FALSE, tx |-> txbuff.tx, txbuff |-> <<>>, msg |-> <<>>,
            credentials |-> <<>>]
      ELSE Only({
             LET sigs == Transaction_sign(txbuff.tx, msg, kc)
             IN  [ok |-> sigs.ok, tx |-> txbuff.tx, txbuff |-> txbuff.bytes, msg |-> msg,
                  credentials |-> IF sigs.ok THEN sigs.sigs ELSE <<>>] :
             msg \in {sha256(txbuff.bytes)}}) :
      txbuff \in {Transaction_toBuffer(tx)}})

\* UnsignedTx.sign(kc): encode, hash, sign, wrap
UnsignedTx_sign(tx, kc) ==
    Only({
      IF ~txbuff.ok
      THEN [ok |-> FALSE, tx |-> txbuff.tx, txbuff |-> <<>>, msg |-> <<>>,
            credentials |-> <<>>]
      ELSE Only({
             LET sigs == Transaction_sign(txbuff.tx, msg, kc)
             IN  [ok |-> sigs.ok, tx |-> txbuff.tx, txbuff |-> txbuff.bytes, msg |-> msg,
                  credentials |-> IF sigs.ok THEN sigs.sigs ELSE <<>>] :
             msg \in {sha256(txbuff.bytes)}}) :
      txbuff \in {UnsignedTx_toBuffer(tx)}})

\* Tx.toBuffer(): the unsigned transaction, the u32 credential count, then
\* each credential behind its u32 type id
Tx_toBuffer(tx, credentials) ==
    LET txbuff == UnsignedTx_toBuffer(tx)
    IN  [txbuff EXCEPT !.bytes =
            IF ~txbuff.ok THEN <<>>
            ELSE @ \o writeUInt32BE(Len(credentials))
                   \o concat([i \in 1..Len(credentials) |->
                                writeUInt32BE(credentials[i].credid)
                                \o Credential_toBuffer(credentials[i])])]

\* Credential.fromBuffer(bytes, offset): the u32 count, then that many
\* 65-byte signatures
Credential_fromBuffer(credid, bytes, offset) ==
    LET n == readUInt32BE(copyFrom(bytes, offset, offset + 4))
    IN  [obj |-> [credid |-> credid,
                  sigArray |-> [j \in 1..n |->
                      Signature(copyFrom(bytes, offset + 4 + 65 * (j - 1),
                                         offset + 4 + 65 * j))]],
         offset |-> offset + 4 + 65 * n]

\* Tx.fromBuffer, the loop of lines 695-701: each credential read is pushed
\* onto this.credentials; an unknown credential id throws
RECURSIVE readCreds(_, _, _)
readCreds(bytes, offset, n) ==
    IF n = 0 THEN [ok |-> TRUE, list |-> <<>>, offset |-> offset]
    ELSE Only({IF ~SelectCredentialClass_known(credid)
               THEN [ok |-> FALSE, list |-> <<>>, offset |-> offset + 4]
               ELSE Only({[readCreds(bytes, c.offset, n - 1) EXCEPT !.list = <<c.obj>> \o @] :
                          c \in {Credential_fromBuffer(credid, bytes, offset + 4)}}) :
               credid \in {readUInt32BE(copyFrom(bytes, offset, offset + 4))}})

\* a Tx: its UnsignedTx is the one it was given (own = FALSE: the UnsignedTx
\* at hand) or one of its own holding `transaction`; and its credentials
Tx_constructor(credentials) ==
    [some |-> TRUE, credentials |-> credentials, own |-> FALSE,
     transaction |-> NoTransaction]

\* Tx.fromBuffer(bytes, offset): this.unsignedTx becomes a new UnsignedTx
\* that decodes the bytes, then this.credentials is emptied and refilled
Tx_fromBuffer(tx, bytes, offset) ==
    Only({
      LET mine == [tx EXCEPT !.own = TRUE, !.transaction = u.tx]
          numcreds == readUInt32BE(copyFrom(bytes, u.offset, u.offset + 4))
      IN  IF ~u.ok THEN [ok |-> FALSE, tx |-> mine, offset |-> u.offset]
          ELSE Only({[ok |-> creds.ok,
                      tx |-> [mine EXCEPT !.credentials = creds.list],
                      offset |-> creds.offset] :
                     creds \in {readCreds(bytes, u.offset + 4, numcreds)}}) :
      u \in {UnsignedTx_fromBuffer(NoTransaction, bytes, offset)}})

(***************************************************************************)
(* The platform chain's transaction (platform/tx.ts).                      *)
(***************************************************************************)
ADDDEFAULTSUBNETDELEGATORTX == 14

\* buf.writeUInt32BE(n, 0): the first four bytes of buf become n
writeUInt32BEInto(b, n) == writeUInt32BE(n) \o copyFrom(b, 4, Len(b))

\* the field initialisers of AddDefaultSubnetDelegatorTx
AddDefaultSubnetDelegatorTx_fields ==
    [nodeid |-> alloc(32, 0), weight |-> alloc(8, 0), startTime |-> alloc(8, 0),
     endTime |-> alloc(8, 0), networkid |-> alloc(4, 0), nonce |-> alloc(8, 0),
     destination |-> alloc(32, 0)]

\* the default arguments of its constructor
DelegatorDefaults ==
    [nodeid |-> alloc(32, 0), weight |-> 0, startTime |-> 0, endTime |-> 0,
     networkid |-> 0, nonce |-> 0, destination |-> alloc(32, 0)]

\* AddDefaultSubnetDelegatorTx.constructor
AddDefaultSubnetDelegatorTx_constructor(a) ==
    LET f == AddDefaultSubnetDelegatorTx_fields
    IN  [nodeid |-> a.nodeid,
         weight |-> writeUInt32BEInto(f.weight, a.weight),
         startTime |-> writeUInt32BEInto(f.startTime, a.startTime),
         endTime |-> writeUInt32BEInto(f.endTime, a.endTime),
         networkid |-> writeUInt32BEInto(f.networkid, a.networkid),
         nonce |-> writeUInt32BEInto(f.nonce, a.nonce),
         destination |-> a.destination]

\* AddDefaultSubnetDelegatorTx.toBuffer()
AddDefaultSubnetDelegatorTx_toBuffer(tx) ==
    tx.nodeid \o tx.weight \o tx.startTime \o tx.endTime \o tx.networkid \o tx.nonce
    \o tx.destination

\* AddDefaultSubnetDelegatorTx.fromBuffer(bytes, offset)
AddDefaultSubnetDelegatorTx_fromBuffer(bytes, offset) ==
    [tx |-> [nodeid |-> copyFrom(bytes, offset, offset + 32),
             weight |-> copyFrom(bytes, offset + 32, offset + 40),
             startTime |-> copyFrom(bytes, offset + 40, offset + 48),
             endTime |-> copyFrom(bytes, offset + 48, offset + 56),
             networkid |-> copyFrom(bytes, offset + 56, offset + 60),
             nonce |-> copyFrom(bytes, offset + 60, offset + 68),
             destination |-> copyFrom(bytes, offset + 68, offset + 100)],
     offset |-> offset + 100]

\* UnsignedAddDefaultSubnetDelegatorTx.toBuffer()
UnsignedDelegatorTx_toBuffer(tx) ==
    writeUInt32BE(ADDDEFAULTSUBNETDELEGATORTX) \o AddDefaultSubnetDelegatorTx_toBuffer(tx)

\* UnsignedAddDefaultSubnetDelegatorTx.fromBuffer(bytes, offset): the platform
\* SelectTxClass knows one tag
UnsignedDelegatorTx_fromBuffer(tx, bytes, offset) ==
    IF readUInt32BE(copyFrom(bytes, offset, offset + 4)) # ADDDEFAULTSUBNETDELEGATORTX
    THEN [ok |-> FALSE, tx |-> tx, offset |-> offset + 4]
    ELSE [ok |-> TRUE,
          tx |-> AddDefaultSubnetDelegatorTx_fromBuffer(bytes, offset + 4).tx,
          offset |-> AddDefaultSubnetDelegatorTx_fromBuffer(bytes, offset + 4).offset]

\* UnsignedAddDefaultSubnetDelegatorTx.sign(kc): the bytes are encoded, the
\* hashing and signing are commented out, the Tx gets an empty list
UnsignedDelegatorTx_sign(tx, kc) ==
    [txbuff |-> UnsignedDelegatorTx_toBuffer(tx), credentials |-> <<>>]

\* the platform Tx.toBuffer(): the unsigned bytes, then the u32 count of
\* credentials; the loop that wrote the credentials is commented out
PlatformTx_toBuffer(tx, credentials) ==
    UnsignedDelegatorTx_toBuffer(tx) \o writeUInt32BE(Len(credentials))

(***************************************************************************)
(* The callers' inputs.                                                    *)
(***************************************************************************)
SeqsUpTo(S, n) == UNION {[1..k -> S] : k \in 0..n}

DistinctSeqsUpTo(S, n) ==
    {q \in SeqsUpTo(S, n) : \A i, j \in 1..Len(q) : i # j => q[i] # q[j]}

Addresses == {1, 2}

KeyChains == SUBSET Addresses

OutPool == {TransferableOutput(1, 7), TransferableOutput(2, 5)}

InPool ==
    {TransferableInput(1, 1, 7, <<SigIdx(0, 1), SigIdx(1, 2)>>),
     TransferableInput(2, 2, 5, <<SigIdx(0, 2), SigIdx(2, 1)>>),
     TransferableInput(3, 1, 9, <<>>)}

OpPool ==
    {TransferableOperation(1, <<UTXOID(5, 0), UTXOID(4, 1)>>,
        addSignatureIdx(NFTTransferOperation(NFTTransferOutput(1)), 0, 1)),
     TransferableOperation(2, <<UTXOID(6, 0)>>,
        addSignatureIdx(NFTTransferOperation(NFTTransferOutput(2)), 0, 2))}

OutLists == DistinctSeqsUpTo(OutPool, MaxOuts)

InLists == DistinctSeqsUpTo(InPool, MaxIns)

\* name and denomination of a new asset: the name "A" with denominations in
\* and out of range, and a name with a two-byte character
AssetArgs ==
    {<<<<65>>, -1>>, <<<<65>>, 0>>, <<<<65>>, 32>>, <<<<65>>, 33>>, <<<<233, 97>>, 9>>}

\* the header arguments: both lists passed, none passed, only outs passed
HeaderArgs ==
    {[NoArgs EXCEPT !.outsGiven = TRUE, !.outs = o, !.insGiven = TRUE, !.ins = i] :
        o \in OutLists, i \in InLists}
    \cup {NoArgs}
    \cup {[NoArgs EXCEPT !.outsGiven = TRUE]}

\* byte streams written by another implementation: base transactions whose
\* lists stand in any order
ForeignStreams ==
    {writeUInt32BE(BASETX)
       \o BaseTx_write([BaseTx_fields(BASETX, 3, alloc(32, 16)) EXCEPT !.outs = o, !.ins = i]) :
        o \in OutLists, i \in InLists}

\* byte streams written elsewhere that announce a CreateAssetTx: an empty
\* header, the name "A", the symbol "TST", a denomination byte in range, just
\* above it and at the top of a byte, one initial state
ForeignAssetStreams ==
    {writeUInt32BE(CREATEASSETTX)
       \o BaseTx_write(BaseTx_fields(CREATEASSETTX, 3, alloc(32, 16)))
       \o writeUInt16BE(1) \o <<65>> \o writeUInt16BE(3) \o <<84, 83, 84>>
       \o <<d>> \o InitialStates_toBuffer(<<1>>) : d \in {32, 33, 255}}

\* ids that are in no registry
UnknownTag == 9

UnknownOperation == 99

UnknownCredential == 77

\* byte streams whose leading u32 is no tag of the registry, in front of the
\* body of a base transaction
UnknownTagStreams ==
    {writeUInt32BE(t) \o copyFrom(b, 4, Len(b)) :
        t \in {EXPORTTX + 1, UnknownTag}, b \in ForeignStreams}

\* byte streams of an operation transaction with an empty header and one
\* operation whose operation id is in no registry
UnknownOpStreams ==
    {writeUInt32BE(OPERATIONTX)
       \o BaseTx_write(BaseTx_fields(OPERATIONTX, 3, alloc(32, 16)))
       \o writeUInt32BE(1)
       \o TransferableOperation_toBuffer([op EXCEPT !.operation.opid = UnknownOperation]) :
        op \in OpPool}

\* the arguments given for a delegator transaction: ids of 32 bytes (the
\* defaults) and of 20 bytes, and numbers below 2^32
DelegatorArgs ==
    {[nodeid |-> alloc(n, IF n = 32 THEN 0 ELSE 5), weight |-> w, startTime |-> st,
      endTime |-> et, networkid |-> nw, nonce |-> no,
      destination |-> alloc(n, IF n = 32 THEN 0 ELSE 6)] :
        n \in {20, 32}, w \in {0, 1, 258}, st \in {0, 3}, et \in {0, 4},
        nw \in {0, 3}, no \in {0, 2}}

\* the credentials arrays given to the constructor of a platform Tx: one
\* credential, and two
PlatformCredentials ==
    {<<addSignature(Credential(SECPCREDENTIAL), Signature(keypair_sign(1, alloc(32, 0))))>>,
     <<Credential(SECPCREDENTIAL),
       addSignature(Credential(SECPCREDENTIAL), Signature(keypair_sign(2, alloc(32, 0))))>>}

(***************************************************************************)
(* State.                                                                  *)
(***************************************************************************)
VARIABLES
    utx,      \* the transaction of the UnsignedTx at hand
    origin,   \* "none" | "constructed" | "decoded": where utx comes from
    args,     \* the arguments its constructor was called with
    buf,      \* what the last UnsignedTx.toBuffer() returned: [ok, bytes]
    stream,   \* the bytes the last fromBuffer was given, and who wrote them
    signed,   \* the Tx the last sign returned: [some, credentials, own, transaction]
    last,     \* the last call: [op, ok, kc, txbuff, msg]
    ret,      \* the offset the last fromBuffer returned, -1 when it returned none
    ptx,      \* the AddDefaultSubnetDelegatorTx at hand
    pargs     \* the arguments its constructor was called with

vars == <<utx, origin, args, buf, stream, signed, last, ret, ptx, pargs>>

NoBuf == [ok |-> FALSE, bytes |-> <<>>]

NoStream == [from |-> "none", bytes |-> <<>>]

NoTx == [some |-> FALSE, credentials |-> <<>>, own |-> FALSE, transaction |-> NoTransaction]

Call(op, ok) == [op |-> op, ok |-> ok, kc |-> {}, txbuff |-> <<>>, msg |-> <<>>]

Init ==
    /\ utx = NoTransaction
    /\ origin = "none"
    /\ args = NoArgs
    /\ buf = NoBuf
    /\ stream = NoStream
    /\ signed = NoTx
    /\ last = Call("init", TRUE)
    /\ ret = -1
    /\ ptx = AddDefaultSubnetDelegatorTx_fields
    /\ pargs = DelegatorDefaults

\* what every constructor call leaves: a new UnsignedTx around the new object
\* (a run follows one UnsignedTx from its creation)
Constructed(tx, a) ==
    /\ origin = "none" /\ last.op = "init"
    /\ utx' = tx
    /\ origin' = "constructed"
    /\ args' = a
    /\ buf' = NoBuf
    /\ stream' = NoStream
    /\ signed' = NoTx
    /\ last' = Call("new", TRUE)
    /\ ret' = -1
    /\ UNCHANGED <<ptx, pargs>>

\* new UnsignedTx(new BaseTx(networkid, blockchainid, outs, ins))
NewBaseTx ==
    \E a \in HeaderArgs : Constructed(BaseTx_constructor(BASETX, a), a)

\* new UnsignedTx(new CreateAssetTx(..., name, symbol, denomination, initialstate))
NewCreateAssetTx ==
    \/ \E h \in HeaderArgs, nd \in AssetArgs :
          LET a == [h EXCEPT !.extraGiven = TRUE, !.name = nd[1], !.symbol = <<84, 83, 84>>,
                             !.denomination = nd[2], !.initialstate = <<1>>]
          IN  Constructed(CreateAssetTx_constructor(a), a)
    \/ \E h \in HeaderArgs : Constructed(CreateAssetTx_constructor(h), h)

\* new UnsignedTx(new OperationTx(..., ops))
NewOperationTx ==
    \E h \in HeaderArgs, ops \in DistinctSeqsUpTo(OpPool, MaxOps) :
        LET a == [h EXCEPT !.ops = ops]
        IN  Constructed(OperationTx_constructor(a), a)

\* new UnsignedTx(new ImportTx(..., importIns))
NewImportTx ==
    \E h \in HeaderArgs, ii \in DistinctSeqsUpTo(InPool, MaxOps) :
        LET a == [h EXCEPT !.importIns = ii]
        IN  Constructed(ImportTx_constructor(a), a)

\* new UnsignedTx(new ExportTx(..., exportOuts))
NewExportTx ==
    \E h \in HeaderArgs, eo \in DistinctSeqsUpTo(OutPool, MaxOps) :
        LET a == [h EXCEPT !.exportOuts = eo]
        IN  Constructed(ExportTx_constructor(a), a)

\* utx.toBuffer()
ToBuffer ==
    /\ origin # "none"
    /\ last.op \in {"new", "fromBuffer"}
    /\ \E r \in {UnsignedTx_toBuffer(utx)} :
           /\ utx' = r.tx
           /\ buf' = [ok |-> r.ok, bytes |-> r.bytes]
           /\ last' = Call("toBuffer", r.ok)
    /\ UNCHANGED <<origin, args, stream, signed, ret, ptx, pargs>>

\* what a fromBuffer of a new UnsignedTx leaves
Decoded(bytes, from) ==
    \E r \in {UnsignedTx_fromBuffer(NoTransaction, bytes, 0)} :
        /\ utx' = r.tx
        /\ origin' = IF r.tx = NoTransaction THEN "none"
                      ELSE IF r.ok THEN "decoded" ELSE "partial"
        /\ args' = NoArgs
        /\ buf' = NoBuf
        /\ stream' = [from |-> from, bytes |-> bytes]
        /\ signed' = NoTx
        /\ last' = Call("fromBuffer", r.ok)
        /\ ret' = IF r.ok THEN r.offset ELSE -1
        /\ UNCHANGED <<ptx, pargs>>

\* new UnsignedTx().fromBuffer(bytes) on the bytes toBuffer() returned
FromBuffer ==
    /\ buf.ok
    /\ last.op = "toBuffer"
    /\ origin = "constructed"
    /\ Decoded(buf.bytes, "toBuffer")

\* new UnsignedTx().fromBuffer(bytes) on a stream written elsewhere
FromForeign ==
    /\ origin = "none" /\ last.op = "init"
    /\ \E bytes \in ForeignStreams : Decoded(bytes, "foreign")

\* utx.sign(kc)
Sign ==
    /\ origin # "none"
    /\ last.op \in {"new", "fromBuffer"}
    /\ \E kc \in KeyChains :
        \E r \in {UnsignedTx_sign(utx, kc)} :
            /\ utx' = r.tx
            /\ signed' = IF r.ok THEN Tx_constructor(r.credentials) ELSE NoTx
            /\ last' = [op |-> "sign", ok |-> r.ok, kc |-> kc,
                        txbuff |-> r.txbuff, msg |-> r.msg]
    /\ UNCHANGED <<origin, args, buf, stream, ret, ptx, pargs>>

\* new UnsignedTx().fromBuffer(bytes) on a stream whose type tag, or whose
\* operation id, is in no registry
FromMalformed ==
    /\ origin = "none" /\ last.op = "init"
    /\ \E bytes \in UnknownTagStreams \cup UnknownOpStreams : Decoded(bytes, "malformed")

\* the streams given to the fromBuffer of the Tx that sign returned: the bytes
\* of its own toBuffer(), those bytes with one byte more behind them, with
\* another type tag in front, and with another id on the last credential
TxStreams ==
    LET own == Tx_toBuffer(utx, signed.credentials).bytes
        n == Len(signed.credentials)
    IN  {[from |-> "Tx.toBuffer", bytes |-> own],
         [from |-> "trailing", bytes |-> own \o <<0>>],
         [from |-> "unknownTag",
          bytes |-> writeUInt32BE(UnknownTag) \o copyFrom(own, 4, Len(own))]}
        \cup {[from |-> "unknownCredential",
               bytes |-> Tx_toBuffer(utx, [signed.credentials EXCEPT
                                              ![n].credid = UnknownCredential]).bytes] :
                 k \in {n} \ {0}}

\* tx.fromBuffer(bytes) on the Tx that sign returned
TxFromBuffer ==
    /\ last.op = "sign" /\ signed.some
    /\ \E st \in TxStreams :
        \E r \in {Tx_fromBuffer(signed, st.bytes, 0)} :
            /\ signed' = r.tx
            /\ stream' = st
            /\ last' = [last EXCEPT !.op = "Tx.fromBuffer", !.ok = r.ok]
            /\ ret' = IF r.ok THEN r.offset ELSE -1
    /\ UNCHANGED <<utx, origin, args, buf, ptx, pargs>>

\* new UnsignedAddDefaultSubnetDelegatorTx(new AddDefaultSubnetDelegatorTx(...))
NewDelegatorTx ==
    /\ origin = "none" /\ last.op = "init"
    /\ \E a \in DelegatorArgs :
        /\ ptx' = AddDefaultSubnetDelegatorTx_constructor(a)
        /\ pargs' = a
    /\ origin' = "platform"
    /\ last' = Call("platform.new", TRUE)
    /\ UNCHANGED <<utx, args, buf, stream, signed, ret>>

\* toBuffer() of the unsigned platform transaction
PlatformToBuffer ==
    /\ last.op = "platform.new"
    /\ buf' = [ok |-> TRUE, bytes |-> UnsignedDelegatorTx_toBuffer(ptx)]
    /\ last' = Call("platform.toBuffer", TRUE)
    /\ UNCHANGED <<utx, origin, args, stream, signed, ret, ptx, pargs>>

\* new UnsignedAddDefaultSubnetDelegatorTx().fromBuffer(bytes) on the bytes
\* toBuffer() returned
PlatformFromBuffer ==
    /\ last.op = "platform.toBuffer"
    /\ \E r \in {UnsignedDelegatorTx_fromBuffer(AddDefaultSubnetDelegatorTx_fields,
                                                buf.bytes, 0)} :
        /\ ptx' = r.tx
        /\ ret' = IF r.ok THEN r.offset ELSE -1
        /\ last' = Call("platform.fromBuffer", r.ok)
    /\ stream' = [from |-> "platform.toBuffer", bytes |-> buf.bytes]
    /\ UNCHANGED <<utx, origin, args, buf, signed, pargs>>

\* sign(kc) of the unsigned platform transaction
PlatformSign ==
    /\ last.op = "platform.new"
    /\ \E kc \in KeyChains :
        \E r \in {UnsignedDelegatorTx_sign(ptx, kc)} :
            /\ signed' = Tx_constructor(r.credentials)
            /\ last' = [op |-> "platform.sign", ok |-> TRUE, kc |-> kc,
                        txbuff |-> r.txbuff, msg |-> <<>>]
    /\ UNCHANGED <<utx, origin, args, buf, stream, ret, ptx, pargs>>

\* utx.getTransaction().fromBuffer(bytes, 4) on the OperationTx, ImportTx or
\* ExportTx a constructor built, with the bytes its toBuffer() returned
InstanceFromBuffer ==
    /\ origin = "constructed" /\ last.op = "toBuffer" /\ buf.ok
    /\ utx.kind \in {OPERATIONTX, IMPORTTX, EXPORTTX}
    /\ \E r \in {Transaction_fromBuffer(utx, buf.bytes, 4)} :
        /\ utx' = r.tx
        /\ last' = Call("instance.fromBuffer", r.ok)
        /\ ret' = IF r.ok THEN r.offset ELSE -1
    /\ stream' = [from |-> "toBuffer", bytes |-> buf.bytes]
    /\ UNCHANGED <<origin, args, buf, signed, ptx, pargs>>

\* a call through the getters of the unsigned transaction the Tx was built
\* around: getIns().push(input), or addSignatureIdx(0, address) on the
\* operation of getOperations()[0]
MutateAfterSign ==
    /\ last.op = "sign" /\ signed.some
    /\ \/ \E input \in InPool : utx' = [utx EXCEPT !.ins = Append(@, input)]
       \/ /\ utx.ops # <<>>
          /\ \E address \in Addresses :
                utx' = [utx EXCEPT !.ops[1].operation = addSignatureIdx(@, 0, address)]
    /\ last' = [last EXCEPT !.op = "mutate"]
    /\ UNCHANGED <<origin, args, buf, stream, signed, ret, ptx, pargs>>

\* new Tx(unsignedTx, credentials) of the platform chain
NewPlatformTx ==
    /\ last.op = "platform.new"
    /\ \E credentials \in PlatformCredentials : signed' = Tx_constructor(credentials)
    /\ last' = Call("platform.Tx", TRUE)
    /\ UNCHANGED <<utx, origin, args, buf, stream, ret, ptx, pargs>>

\* new <class>().fromBuffer(buffer, k) on a buffer that holds, from offset k
\* on, the bytes the transaction's toBuffer() returned, and one byte more
FromBufferAt ==
    /\ origin = "constructed" /\ last.op = "toBuffer" /\ buf.ok
    /\ \E k \in 1..MaxOffset :
        \E b \in {copyFrom(buf.bytes, 4, Len(buf.bytes))} :
            \E r \in {Transaction_fromBuffer([NoTransaction EXCEPT !.kind = utx.kind],
                                             alloc(k, 255) \o b \o <<170>>, k)} :
                /\ utx' = r.tx
                /\ stream' = [from |-> "embedded", bytes |-> alloc(k, 255) \o b \o <<170>>,
                              offset |-> k]
                /\ last' = [Call("fromBuffer.at", r.ok) EXCEPT !.txbuff = b]
                /\ ret' = IF r.ok THEN r.offset ELSE -1
    /\ origin' = "decoded.at"
    /\ UNCHANGED <<args, buf, signed, ptx, pargs>>

\* new UnsignedTx().fromBuffer(bytes) on a CreateAssetTx stream written
\* elsewhere
FromForeignAsset ==
    /\ origin = "none" /\ last.op = "init"
    /\ \E bytes \in ForeignAssetStreams : Decoded(bytes, "foreignAsset")

Next ==
    \/ NewBaseTx
    \/ NewCreateAssetTx
    \/ NewOperationTx
    \/ NewImportTx
    \/ NewExportTx
    \/ ToBuffer
    \/ FromBuffer
    \/ FromForeign
    \/ Sign
    \/ FromMalformed
    \/ TxFromBuffer
    \/ NewDelegatorTx
    \/ PlatformToBuffer
    \/ PlatformFromBuffer
    \/ PlatformSign
    \/ InstanceFromBuffer
    \/ MutateAfterSign
    \/ NewPlatformTx
    \/ FromBufferAt
    \/ FromForeignAsset

Spec == Init /\ [][Next]_vars

(***************************************************************************)
(* Properties.                                                             *)
(***************************************************************************)
\* the orderings of a list
Orderings(q) ==
    {[i \in 1..Len(q) |-> q[f[i]]] :
        f \in {g \in [1..Len(q) -> 1..Len(q)] : \A i, j \in 1..Len(q) : g[i] = g[j] => i = j}}

\* the header (network id, blockchain id, outputs, inputs) that stands in the
\* bytes of an unsigned transaction, behind its 4-byte type tag
HeaderOf(bytes) == BaseTx_fromBuffer(NoTransaction, bytes, 4).tx

OutsInOrder(outs) ==
    \A i \in 1..(Len(outs) - 1) : TransferableOutput_comparator(outs[i], outs[i + 1]) <= 0

InsInOrder(ins) ==
    \A i \in 1..(Len(ins) - 1) : TransferableInput_comparator(ins[i], ins[i + 1]) <= 0

\* the signable elements of a transaction in signing order, each with the
\* credential id it reports and its signer indices
Signables(tx) ==
    [i \in 1..Len(tx.ins) |->
        [credid |-> Input_getCredentialID(tx.ins[i]), sigIdxs |-> tx.ins[i].sigIdxs]]
    \o [i \in 1..Len(tx.ops) |->
        [credid |-> Operation_getCredentialID(tx.ops[i].operation),
         sigIdxs |-> getSigIdxs(tx.ops[i].operation)]]
    \o [i \in 1..Len(tx.importIns) |->
        [credid |-> Input_getCredentialID(tx.importIns[i]),
         sigIdxs |-> tx.importIns[i].sigIdxs]]

\* the key each signature of a credential was made with, in order
Signers(cred) == [j \in 1..Len(cred.sigArray) |-> cred.sigArray[j].bytes[1]]

\* the source address of each signer index, in order
Sources(sigIdxs) == [j \in 1..Len(sigIdxs) |-> sigIdxs[j].source]

\* C1: for a transaction of any of the five kinds, fromBuffer of the bytes
\* toBuffer returned succeeds, gives a transaction whose getTxType is the tag
\* written, and that transaction encodes to the same bytes again.
RoundTrip ==
    (last.op = "fromBuffer" /\ stream.from = "toBuffer") =>
        /\ last.ok
        /\ getTxType(utx) = readUInt32BE(copyFrom(stream.bytes, 0, 4))
        /\ UnsignedTx_toBuffer(utx).bytes = stream.bytes

\* C2: for a transaction decoded from a byte stream, the bytes sign hashes
\* are the original bytes of the stream, so the digest is sha256 of them.
DigestReproduces ==
    (last.op = "sign" /\ origin = "decoded" /\ last.txbuff # <<>>) =>
        /\ last.txbuff = stream.bytes
        /\ last.msg = sha256(stream.bytes)

\* C3: in the bytes toBuffer returns for a transaction built through a
\* constructor, of any class, the header's outputs stand in non-decreasing
\* order of their canonical bytes, and so do the header's inputs.
CanonicalSort ==
    (origin = "constructed" /\ last.op = "toBuffer" /\ buf.ok) =>
        /\ OutsInOrder(HeaderOf(buf.bytes).outs)
        /\ InsInOrder(HeaderOf(buf.bytes).ins)
        /\ Len(HeaderOf(buf.bytes).outs) = Len(args.outs)
        /\ Len(HeaderOf(buf.bytes).ins) = Len(args.ins)

\* the caller supplied two outputs and two inputs, both out of canonical
\* order, and the transaction was encoded
CanonicalSortWitness ==
    /\ origin = "constructed" /\ last.op = "toBuffer" /\ buf.ok
    /\ Len(args.outs) = 2 /\ ~OutsInOrder(args.outs)
    /\ Len(args.ins) = 2 /\ ~InsInOrder(args.ins)

\* C4: a transaction constructed from the same arguments with its outputs and
\* inputs supplied in any other order encodes to the same bytes, and sign
\* hashes the same digest.
PermutationInvariant ==
    (origin = "constructed" /\ last.op = "toBuffer") =>
        \A o \in Orderings(args.outs), i \in Orderings(args.ins) :
            LET other == Transaction_constructor(utx.kind, [args EXCEPT !.outs = o, !.ins = i])
            IN  /\ UnsignedTx_toBuffer(other).ok = buf.ok
                /\ UnsignedTx_toBuffer(other).bytes = buf.bytes
                /\ buf.ok => UnsignedTx_sign(other, Addresses).msg = sha256(buf.bytes)

\* an encoded operation transaction whose two outputs and two inputs the
\* caller supplied in an order the encoder had to change
PermutationInvariantWitness ==
    /\ origin = "constructed" /\ last.op = "toBuffer" /\ buf.ok
    /\ utx.kind = OPERATIONTX
    /\ Len(args.outs) = 2 /\ args.outs # utx.outs
    /\ Len(args.ins) = 2 /\ args.ins # utx.ins

\* C5: a successful sign returns one credential per signable element: the
\* header inputs in the order they are encoded in (sorted), then an operation
\* transaction's operations or an import transaction's import inputs in the
\* order the caller gave them; export outputs and initial states add none.
\* Credential i is signed by the signers of element i.
CredentialPerSignable ==
    (last.op = "sign" /\ last.ok) =>
        /\ Len(signed.credentials) =
              Len(utx.ins) + (IF utx.kind = OPERATIONTX THEN Len(utx.ops) ELSE 0)
                           + (IF utx.kind = IMPORTTX THEN Len(utx.importIns) ELSE 0)
        /\ \A i \in 1..Len(utx.ins) :
              /\ TransferableInput_toBuffer(HeaderOf(last.txbuff).ins[i])
                    = TransferableInput_toBuffer(utx.ins[i])
              /\ Signers(signed.credentials[i]) = Sources(utx.ins[i].sigIdxs)
        /\ InsInOrder(utx.ins)
        /\ origin = "constructed" =>
              /\ utx.kind = OPERATIONTX => \A i \in 1..Len(args.ops) :
                    Signers(signed.credentials[Len(utx.ins) + i])
                        = Sources(getSigIdxs(args.ops[i].operation))
              /\ utx.kind = IMPORTTX => \A i \in 1..Len(args.importIns) :
                    Signers(signed.credentials[Len(utx.ins) + i])
                        = Sources(args.importIns[i].sigIdxs)

\* a signed operation transaction with three credentials whose inputs the
\* caller supplied out of canonical order
CredentialPerSignableWitness ==
    /\ last.op = "sign" /\ last.ok /\ origin = "constructed"
    /\ utx.kind = OPERATIONTX
    /\ Len(args.ins) = 2 /\ args.ins # utx.ins /\ Len(args.ops) = 1
    /\ Len(signed.credentials) = 3

\* C6: in a signed transaction credential i holds one signature per signer
\* index of signable element i, in the order of the signer indices, and its
\* type id is the credential id that element reports.
SignaturePerSignerIndex ==
    (last.op = "sign" /\ last.ok) =>
        /\ Len(signed.credentials) = Len(Signables(utx))
        /\ \A i \in 1..Len(Signables(utx)) :
              LET el == Signables(utx)[i]
                  cred == signed.credentials[i]
              IN  /\ Len(cred.sigArray) = Len(el.sigIdxs)
                  /\ \A j \in 1..Len(el.sigIdxs) :
                        cred.sigArray[j].bytes = keypair_sign(el.sigIdxs[j].source, last.msg)
                  /\ cred.credid = el.credid

\* an operation transaction with two inputs of two signer indices each and
\* one NFT operation with one: 3 credentials, signature counts [2, 2, 1]
SignaturePerSignerIndexWitness ==
    /\ last.op = "sign" /\ last.ok
    /\ utx.kind = OPERATIONTX
    /\ [i \in 1..Len(signed.credentials) |-> Len(signed.credentials[i].sigArray)] = <<2, 2, 1>>
    /\ [i \in 1..Len(signed.credentials) |-> signed.credentials[i].credid]
          = <<SECPCREDENTIAL, SECPCREDENTIAL, NFTCREDENTIAL>>

\* C7: every signature of every credential is made over the same 32-byte
\* digest, sha256 of the bytes UnsignedTx.toBuffer() gives (type tag, then the
\* sorted body), and the Tx that sign returns serializes with those bytes
\* first.
OneDigest ==
    (last.op = "sign" /\ last.ok) =>
        /\ Len(last.msg) = 32
        /\ last.msg = sha256(UnsignedTx_toBuffer(utx).bytes)
        /\ last.txbuff = UnsignedTx_toBuffer(utx).bytes
        /\ copyFrom(last.txbuff, 0, 4) = writeUInt32BE(getTxType(utx))
        /\ OutsInOrder(HeaderOf(last.txbuff).outs) /\ InsInOrder(HeaderOf(last.txbuff).ins)
        /\ \A i \in 1..Len(signed.credentials) :
              \A j \in 1..Len(signed.credentials[i].sigArray) :
                  copyFrom(signed.credentials[i].sigArray[j].bytes, 1, 33) = last.msg
        /\ Tx_toBuffer(utx, signed.credentials).ok
        /\ copyFrom(Tx_toBuffer(utx, signed.credentials).bytes, 0, Len(last.txbuff))
              = last.txbuff

\* a signed create-asset transaction with signatures in two credentials
OneDigestWitness ==
    /\ last.op = "sign" /\ last.ok
    /\ utx.kind = CREATEASSETTX
    /\ Len(signed.credentials) = 2
    /\ \A i \in 1..2 : Len(signed.credentials[i].sigArray) = 2

\* C8: when the keychain holds no key for the source of some signer index of
\* some signable element, sign fails and no Tx is returned, with no
\* credential and no signature.
MissingKeyFails ==
    (/\ last.op = "sign"
     /\ \E i \in 1..Len(Signables(utx)) : \E j \in 1..Len(Signables(utx)[i].sigIdxs) :
           ~hasKey(last.kc, Signables(utx)[i].sigIdxs[j].source)) =>
        /\ ~last.ok
        /\ ~signed.some
        /\ signed.credentials = <<>>

\* a sign of an operation transaction whose input can be signed and whose
\* operation, the last element, names a key the keychain does not hold
MissingKeyFailsWitness ==
    /\ last.op = "sign" /\ ~last.ok /\ origin = "constructed"
    /\ utx.kind = OPERATIONTX
    /\ Len(utx.ins) = 1 /\ Len(utx.ops) = 1
    /\ last.kc # {}
    /\ \A j \in 1..Len(utx.ins[1].sigIdxs) : hasKey(last.kc, utx.ins[1].sigIdxs[j].source)
    /\ \E j \in 1..Len(getSigIdxs(utx.ops[1].operation)) :
          ~hasKey(last.kc, getSigIdxs(utx.ops[1].operation)[j].source)

\* C9: constructing a CreateAssetTx with a denomination outside [0, 32]
\* fails: no CreateAssetTx object comes of it.
InvalidDenominationFails ==
    (/\ last.op = "new" /\ args.extraGiven
     /\ (args.denomination < 0 \/ args.denomination > 32)) =>
        ~(origin = "constructed" /\ getTxType(utx) = CREATEASSETTX)

\* C10: a BaseTx of network id 3 and blockchain id 32 bytes 0x10 with no
\* outputs and no inputs, the lists omitted or passed empty, encodes to the
\* 44-byte body (network id, blockchain id, zero count, zero count), and
\* those bytes decode to a transaction with no outputs and no inputs.
EmptyBaseTxEncodes ==
    (/\ origin = "constructed" /\ last.op = "toBuffer" /\ getTxType(utx) = BASETX
     /\ args.networkid = 3 /\ args.blockchainid = alloc(32, 16)
     /\ args.outs = <<>> /\ args.ins = <<>>) =>
        /\ buf.ok
        /\ copyFrom(buf.bytes, 4, Len(buf.bytes))
              = writeUInt32BE(3) \o alloc(32, 16) \o writeUInt32BE(0) \o writeUInt32BE(0)
        /\ Len(buf.bytes) = 4 + 44
        /\ UnsignedTx_fromBuffer(NoTransaction, buf.bytes, 0).ok
        /\ UnsignedTx_fromBuffer(NoTransaction, buf.bytes, 0).tx.outs = <<>>
        /\ UnsignedTx_fromBuffer(NoTransaction, buf.bytes, 0).tx.ins = <<>>

\* the type tag a byte stream starts with
TagOf(bytes) == readUInt32BE(copyFrom(bytes, 0, 4))

\* the offset of the first operation in the bytes of an operation transaction
FirstOperationAt(bytes) == BaseTx_fromBuffer(NoTransaction, bytes, 4).offset + 4

\* the bytes of an operation transaction hold at least one operation
HasOperation(bytes) ==
    /\ BaseTx_fromBuffer(NoTransaction, bytes, 4).ok
    /\ readUInt32BE(copyFrom(bytes, FirstOperationAt(bytes) - 4, FirstOperationAt(bytes))) > 0

\* the operation id of the first operation in the bytes of an operation
\* transaction: behind the asset id, the count of UTXO ids and the UTXO ids
FirstOperationID(bytes) ==
    LET o == FirstOperationAt(bytes)
        numutxoIDs == readUInt32BE(copyFrom(bytes, o + 32, o + 36))
    IN  readUInt32BE(copyFrom(bytes, o + 36 + 36 * numutxoIDs, o + 40 + 36 * numutxoIDs))

\* C11: a Tx.fromBuffer that succeeds has consumed every byte of the buffer
\* it was given; a complete transaction followed by extra bytes is an error.
TrailingBytesReported ==
    (last.op = "Tx.fromBuffer" /\ last.ok) => ret = Len(stream.bytes)

\* C12: Tx.fromBuffer of the bytes Tx.toBuffer() gives for the Tx that sign
\* returned succeeds, and yields the same unsigned transaction and the same
\* credentials (count, type ids, signatures, order), which encode to the same
\* bytes again.
TxRoundTrip ==
    (last.op = "Tx.fromBuffer" /\ stream.from = "Tx.toBuffer") =>
        /\ last.ok
        /\ UnsignedTx_toBuffer(signed.transaction).bytes = last.txbuff
        /\ signed.credentials = UnsignedTx_sign(utx, last.kc).credentials
        /\ Tx_toBuffer(signed.transaction, signed.credentials).bytes = stream.bytes

\* C13: UnsignedTx.fromBuffer fails on a buffer whose leading u32 is no tag
\* of the transaction registry, before anything of the body is decoded; and
\* an operation id that is not in the operation registry makes
\* TransferableOperation.fromBuffer, and the decoding around it, fail.
UnknownIdFails ==
    /\ (/\ last.op = "fromBuffer"
        /\ TagOf(stream.bytes) \notin {BASETX, CREATEASSETTX, OPERATIONTX, IMPORTTX, EXPORTTX}) =>
           /\ ~last.ok
           /\ utx = NoTransaction
           /\ ret = -1
    /\ (/\ last.op = "fromBuffer"
        /\ TagOf(stream.bytes) = OPERATIONTX
        /\ HasOperation(stream.bytes)
        /\ FirstOperationID(stream.bytes) # NFTXFEROP) =>
           /\ ~last.ok
           /\ ~TransferableOperation_fromBuffer(stream.bytes, FirstOperationAt(stream.bytes)).ok
           /\ utx.ops = <<>>

\* a fromBuffer of a stream that starts with a tag no registry holds
UnknownIdFailsWitness ==
    /\ last.op = "fromBuffer" /\ stream.from = "malformed"
    /\ TagOf(stream.bytes) = UnknownTag
    /\ Len(stream.bytes) > 48
    /\ ~last.ok

\* C20: a Tx.fromBuffer that fails leaves the Tx it was called on as it was:
\* neither its unsigned transaction nor its credentials are replaced.
TxFromBufferAtomic ==
    [][(last.op = "sign" /\ last'.op = "Tx.fromBuffer" /\ ~last'.ok) => signed' = signed]_vars

\* the body of the platform transaction in the bytes toBuffer() returned,
\* behind the 4-byte type tag
DelegatorBody == copyFrom(buf.bytes, 4, Len(buf.bytes))

\* C14: the body of an AddDefaultSubnetDelegatorTx is the fixed layout 20-byte
\* node id, 8-byte weight, start time and end time, 4-byte network id, 8-byte
\* nonce, 20-byte destination, 76 bytes, for every transaction the constructor
\* produces, and fromBuffer consumes that many bytes.
DelegatorLayout ==
    /\ last.op = "platform.toBuffer" =>
          /\ Len(DelegatorBody) = 20 + 8 + 8 + 8 + 4 + 8 + 20
          /\ copyFrom(DelegatorBody, 0, 20) = ptx.nodeid
          /\ copyFrom(DelegatorBody, 20, 28) = ptx.weight
          /\ copyFrom(DelegatorBody, 28, 36) = ptx.startTime
          /\ copyFrom(DelegatorBody, 36, 44) = ptx.endTime
          /\ copyFrom(DelegatorBody, 44, 48) = ptx.networkid
          /\ copyFrom(DelegatorBody, 48, 56) = ptx.nonce
          /\ copyFrom(DelegatorBody, 56, 76) = ptx.destination
    /\ (last.op = "platform.fromBuffer" /\ last.ok) =>
          ret = 4 + 20 + 8 + 8 + 8 + 4 + 8 + 20

\* C15: the 8-byte weight, start time, end time and nonce on the wire, read
\* as big-endian u64, are the numbers given to the constructor: four zero
\* bytes, then the number as a u32.
DelegatorU64 ==
    last.op = "platform.toBuffer" =>
        LET n == Len(ptx.nodeid)
        IN  /\ copyFrom(DelegatorBody, n, n + 8) = writeUInt64BE(pargs.weight)
            /\ copyFrom(DelegatorBody, n + 8, n + 16) = writeUInt64BE(pargs.startTime)
            /\ copyFrom(DelegatorBody, n + 16, n + 24) = writeUInt64BE(pargs.endTime)
            /\ copyFrom(DelegatorBody, n + 28, n + 36) = writeUInt64BE(pargs.nonce)

\* C16: the signed platform Tx serializes as the unsigned bytes followed by
\* one 65-byte signature over sha256 of them, made with a key of the
\* keychain; no credential count, no credentials.
DelegatorSingleSignature ==
    last.op = "platform.sign" =>
        /\ signed.some
        /\ Len(PlatformTx_toBuffer(ptx, signed.credentials)) = Len(last.txbuff) + 65
        /\ \E k \in Addresses :
              PlatformTx_toBuffer(ptx, signed.credentials)
                 = last.txbuff \o keypair_sign(k, sha256(last.txbuff))

\* the bytes of a serialized transaction behind its type tag and its header
ExtraBytes(bytes, tx) == copyFrom(bytes, 4 + Len(BaseTx_write(tx)), Len(bytes))

\* C17: the authored lists are written in the order given and read in the
\* order found: the UTXO ids of each operation, the operations of an
\* OperationTx, the importIns of an ImportTx, the exportOuts of an ExportTx.
\* Decoded elements are compared by their encodings: the key a signature
\* index was built with is not on the wire.
AuthoredOrderKept ==
    /\ (last.op = "toBuffer" /\ buf.ok /\ origin = "constructed" /\ utx.kind = OPERATIONTX) =>
          /\ ExtraBytes(buf.bytes, utx)
                = writeUInt32BE(Len(args.ops))
                  \o concat([i \in 1..Len(args.ops) |->
                      args.ops[i].assetid \o writeUInt32BE(Len(args.ops[i].utxoIDs))
                      \o concat([j \in 1..Len(args.ops[i].utxoIDs) |->
                                   UTXOID_toBuffer(args.ops[i].utxoIDs[j])])
                      \o writeUInt32BE(args.ops[i].operation.opid)
                      \o NFTTransferOperation_toBuffer(args.ops[i].operation)])
          /\ LET ops == OperationTx_fromBuffer(NoTransaction, buf.bytes, 4).tx.ops
             IN  [i \in 1..Len(ops) |-> TransferableOperation_toBuffer(ops[i])]
                    = [i \in 1..Len(args.ops) |-> TransferableOperation_toBuffer(args.ops[i])]
    /\ (last.op = "toBuffer" /\ buf.ok /\ origin = "constructed" /\ utx.kind = IMPORTTX) =>
          /\ ExtraBytes(buf.bytes, utx)
                = writeUInt32BE(Len(args.importIns))
                  \o concat([i \in 1..Len(args.importIns) |->
                               TransferableInput_toBuffer(args.importIns[i])])
          /\ LET ins == ImportTx_fromBuffer(NoTransaction, buf.bytes, 4).tx.importIns
             IN  [i \in 1..Len(ins) |-> TransferableInput_toBuffer(ins[i])]
                    = [i \in 1..Len(args.importIns) |->
                         TransferableInput_toBuffer(args.importIns[i])]
    /\ (last.op = "toBuffer" /\ buf.ok /\ origin = "constructed" /\ utx.kind = EXPORTTX) =>
          /\ ExtraBytes(buf.bytes, utx)
                = writeUInt32BE(Len(args.exportOuts))
                  \o concat([i \in 1..Len(args.exportOuts) |->
                               TransferableOutput_toBuffer(args.exportOuts[i])])
          /\ LET outs == ExportTx_fromBuffer(NoTransaction, buf.bytes, 4).tx.exportOuts
             IN  [i \in 1..Len(outs) |-> TransferableOutput_toBuffer(outs[i])]
                    = [i \in 1..Len(args.exportOuts) |->
                         TransferableOutput_toBuffer(args.exportOuts[i])]
    /\ (last.op = "fromBuffer" /\ last.ok /\ utx.kind = OPERATIONTX) =>
          ExtraBytes(stream.bytes, utx)
             = writeUInt32BE(Len(utx.ops))
               \o concat([i \in 1..Len(utx.ops) |-> TransferableOperation_toBuffer(utx.ops[i])])

\* an OperationTx with two operations, one of them with two UTXO ids given in
\* descending order, has been serialized
AuthoredOrderKeptWitness ==
    /\ last.op = "toBuffer" /\ buf.ok /\ origin = "constructed" /\ utx.kind = OPERATIONTX
    /\ Len(args.ops) = 2
    /\ Len(args.ops[2].utxoIDs) = 2
    /\ compare(UTXOID_toBuffer(args.ops[2].utxoIDs[1]),
               UTXOID_toBuffer(args.ops[2].utxoIDs[2])) > 0

\* C18: toBuffer() and sign() leave the transaction as it was: getOuts() and
\* getIns() return the same lists in the same order before and after, for a
\* constructed transaction and for a decoded one.
SerializingLeavesOrder ==
    [][(last'.op \in {"toBuffer", "sign"} /\ origin \in {"constructed", "decoded"}) =>
          (utx'.outs = utx.outs /\ utx'.ins = utx.ins)]_vars

\* C19: CreateAssetTx.toBuffer() writes in front of the name the u16 count of
\* its UTF-8 bytes, then all of those bytes, the symbol likewise, then the
\* denomination byte, so that fromBuffer returns the name, the symbol and the
\* denomination given, names with multi-byte characters included.
NameBytesCounted ==
    (/\ last.op = "toBuffer" /\ buf.ok /\ origin = "constructed"
     /\ utx.kind = CREATEASSETTX /\ args.extraGiven
     /\ args.denomination >= 0 /\ args.denomination <= 32) =>
        LET name == concat([i \in 1..Len(args.name) |-> utf8Bytes(args.name[i])])
            symbol == concat([i \in 1..Len(args.symbol) |-> utf8Bytes(args.symbol[i])])
            extra == ExtraBytes(buf.bytes, utx)
            decoded == CreateAssetTx_fromBuffer(NoTransaction, buf.bytes, 4).tx
        IN  /\ copyFrom(extra, 0, 2 + Len(name)) = writeUInt16BE(Len(name)) \o name
            /\ copyFrom(extra, 2 + Len(name), 4 + Len(name) + Len(symbol))
                  = writeUInt16BE(Len(symbol)) \o symbol
            /\ copyFrom(extra, 4 + Len(name) + Len(symbol), 5 + Len(name) + Len(symbol))
                  = writeUInt8(args.denomination)
            /\ decoded.name = args.name
            /\ decoded.symbol = args.symbol
            /\ decoded.denomination = writeUInt8(args.denomination)

\* C21: fromBuffer replaces what the instance held: after fromBuffer on an
\* OperationTx, ImportTx or ExportTx, one built with a non-empty list
\* included, toBuffer() writes the count and the elements of the stream just
\* parsed, not those of the earlier list as well.
FromBufferReplaces ==
    (last.op = "instance.fromBuffer" /\ last.ok) =>
        /\ Len(utx.ops) = Len(OperationTx_fromBuffer(NoTransaction, stream.bytes, 4).tx.ops)
        /\ Len(utx.importIns)
              = Len(ImportTx_fromBuffer(NoTransaction, stream.bytes, 4).tx.importIns)
        /\ Len(utx.exportOuts)
              = Len(ExportTx_fromBuffer(NoTransaction, stream.bytes, 4).tx.exportOuts)
        /\ ExtraBytes(UnsignedTx_toBuffer(utx).bytes, utx) = ExtraBytes(stream.bytes, utx)

\* C22: the Tx that sign returned keeps, whatever is called afterwards on the
\* unsigned transaction or on what its getters return, the bytes that were
\* signed as its unsigned part, and one credential per signable element.
SignedBytesKept ==
    (last.op \in {"sign", "mutate"} /\ signed.some) =>
        /\ UnsignedTx_toBuffer(utx).bytes = last.txbuff
        /\ Len(signed.credentials) = Len(Signables(utx))

\* C23: in the bytes any toBuffer() returns, each count is the number of
\* elements written behind it.  For the unsigned asset-chain transaction,
\* whatever was called on it before: a decoder that reads as many elements as
\* each count says ends exactly at the end of the bytes.  For the signed Tx
\* of either chain: behind the unsigned bytes stand the count and that many
\* credentials, and nothing else.
CountsMatchElements ==
    /\ (origin \in {"constructed", "decoded"} /\ utx.outsDef /\ utx.insDef) =>
          LET b == UnsignedTx_toBuffer(utx).bytes
              d == Transaction_fromBuffer([NoTransaction EXCEPT !.kind = utx.kind], b, 4)
          IN  d.ok /\ d.offset = Len(b)
    /\ (last.op \in {"sign", "mutate"} /\ signed.some) =>
          LET u == UnsignedTx_toBuffer(utx).bytes
              b == Tx_toBuffer(utx, signed.credentials).bytes
              n == readUInt32BE(copyFrom(b, Len(u), Len(u) + 4))
          IN  b = u \o writeUInt32BE(n)
                    \o concat([i \in 1..n |-> writeUInt32BE(signed.credentials[i].credid)
                                              \o Credential_toBuffer(signed.credentials[i])])
    /\ (last.op \in {"platform.sign", "platform.Tx"} /\ signed.some) =>
          LET u == UnsignedDelegatorTx_toBuffer(ptx)
              b == PlatformTx_toBuffer(ptx, signed.credentials)
              n == readUInt32BE(copyFrom(b, Len(u), Len(u) + 4))
          IN  b = u \o writeUInt32BE(n)
                    \o concat([i \in 1..n |-> writeUInt32BE(signed.credentials[i].credid)
                                              \o Credential_toBuffer(signed.credentials[i])])

DenominationInRange ==
    (origin \in {"constructed", "decoded"} /\ getTxType(utx) = CREATEASSETTX) =>
        /\ readUInt8(utx.denomination) >= 0
        /\ readUInt8(utx.denomination) <= 32

====
